---------------------------- MODULE Spec2Model ----------------------------
(***************************************************************************)
(* Query-and-settlement workflow of the 0G compute starter kit.            *)
(*                                                                         *)
(* Two programs of the repository are modelled:                            *)
(*   - the REST service's BrokerService singleton (src/unnamed/part_000),  *)
(*     whose async public methods run concurrently, interleaving at every  *)
(*     await;                                                              *)
(*   - the command line program (src/unnamed/part_001), one invocation of  *)
(*     main().                                                             *)
(* The payment broker SDK and the OpenAI-compatible endpoint are external: *)
(* each call to them either returns one of a small set of values or throws *)
(* one of a small set of errors.                                           *)
(***************************************************************************)
EXTENDS Integers, Sequences, FiniteSets, TLC

VARIABLES program, initState, brokerCreated, ledger, req, autoCalls, cli

vars == <<program, initState, brokerCreated, ledger, req, autoCalls, cli>>

---------------------------------------------------------------------------
(* Bounds of the model *)

\* largest fee and largest amount a caller passes (the smallest is -1)
MaxFee == 1
MaxAmount == 1

\* BrokerService method invocations that may be in flight together.  Two are
\* modelled: invocations share only the init promise and the broker, so every
\* interaction between invocations is an interaction between two of them.
Requests == {1, 2}

---------------------------------------------------------------------------
(* Values exchanged with the environment *)

\* JavaScript null (completion.choices[0].message.content may be null)
Null == "<null>"

\* an optional argument that was not passed is the empty sequence, a passed
\* one is <<v>>
Undefined == <<>>

Providers == {"0xAAA", "not-an-address"}
\* the provider addresses that are syntactically valid network addresses
WellFormedAddresses == {"0xAAA"}
Prompts == {"Hello, AI!"}
\* the texts the command line's --query flag may carry
CliPrompts == Prompts \cup {"Bye"}
FeeValues == -1..MaxFee
Fees == {Undefined} \cup {<<f>> : f \in FeeValues}
Amounts == -1..MaxAmount
Contents == {Null, "", "Hi there"}
ChatIds == {"", "chat-1"}
AutoErrors == {"stale fee", "nonce too low"}
SettleErrors == {"insufficient balance"}
BrokerErrors == {"upstream unavailable"}
\* the request fails (connection, status >= 400), or the completion has no
\* choices and reading choices[0].message throws
CompletionErrors == {"503 status code", "Cannot read properties of undefined"}
InitErrors == {"PRIVATE_KEY is required in .env file", "broker creation failed"}

\* the broker's ledger is identified by the number of fundings it has taken;
\* getLedger answers with the ledger as it is when the call is made
LedgerSnapshot(l) == [version |-> l]

\* what the broker answers to listService
ServiceList == <<[provider |-> "0xAAA", model |-> "model-of-0xAAA"]>>

\* what the broker answers for a provider: getServiceMetadata
ServiceMetadata(providerAddress) ==
    [endpoint |-> "https://" \o providerAddress, model |-> "model-of-" \o providerAddress]

\* a header value as JavaScript sees it: its type and its text
StringValue(text) == [type |-> "string", text |-> text]
NumberValue(text) == [type |-> "number", text |-> text]

\* what the broker may answer for a (provider, prompt): getRequestHeaders.
\* The headers are bound to the prompt; the object may hold a value that is
\* not a string
RequestHeaders(providerAddress, query) ==
    {[Address |-> StringValue(providerAddress), Signature |-> StringValue("sig:" \o query)],
     [Address |-> StringValue(providerAddress), Signature |-> StringValue("sig:" \o query),
      Nonce |-> NumberValue("7")]}

---------------------------------------------------------------------------
(* JavaScript expressions used by the code *)

\* new Error(`${prefix}: ${error.message}`): the message is the chain of
\* prefixes followed by the original message
WrapError(prefix, message) == <<prefix>> \o message

\* mutant: the fee is only tested for truthiness, `> 0` is dropped
UseFallbackFeeTruthy(fallbackFee) ==
    /\ fallbackFee # Undefined
    /\ fallbackFee[1] # 0

\* `fallbackFee && fallbackFee > 0`
UseFallbackFee(fallbackFee) ==
    /\ fallbackFee # Undefined
    /\ fallbackFee[1] # 0
    /\ fallbackFee[1] > 0

\* `content || ""`
ContentOrEmpty(content) == IF content = Null \/ content = "" THEN "" ELSE content

---------------------------------------------------------------------------
(* BrokerService (REST service) *)

NoRequest ==
    [pc |-> "idle", op |-> "none", providerAddress |-> "", query |-> "",
     fallbackFee |-> Undefined, amount |-> 0,
     endpoint |-> "", model |-> "", headerArgs |-> <<>>, headers |-> <<>>,
     request |-> <<>>,
     content |-> Null, chatId |-> "", received |-> FALSE,
     processed |-> <<>>, isValid |-> <<>>, autoError |-> <<>>,
     settled |-> <<>>, settleError |-> <<>>,
     ret |-> <<>>, err |-> <<>>,
     nMetadata |-> 0, nHeaders |-> 0, nCompletion |-> 0,
     nProcessResponse |-> 0, nSettleFee |-> 0, nDepositFund |-> 0, nAddLedger |-> 0,
     nGetLedger |-> 0, nListService |-> 0]

Returned(r, value) == [r EXCEPT !.pc = "done", !.ret = <<value>>]
Thrown(r, message) == [r EXCEPT !.pc = "done", !.err = message]

\* mutant: a failed initialisation is tried again
InitializeOkRetry ==
    /\ program = "service"
    /\ initState[1] \in {"pending", "failed"}
    /\ initState' = <<"ok">>
    /\ brokerCreated' = brokerCreated + 1
    /\ UNCHANGED <<program, ledger, req, autoCalls, cli>>

\* constructor + initialize(): the promise created in the constructor settles
InitializeOk ==
    /\ program = "service"
    /\ initState = <<"pending">>
    /\ initState' = <<"ok">>
    /\ brokerCreated' = brokerCreated + 1
    /\ UNCHANGED <<program, ledger, req, autoCalls, cli>>

InitializeFail ==
    /\ program = "service"
    /\ initState = <<"pending">>
    /\ \E e \in InitErrors : initState' = <<"failed", e>>
    /\ UNCHANGED <<program, ledger, brokerCreated, req, autoCalls, cli>>

\* initialize() rejects while no operation awaits the init promise: the
\* rejection is unhandled, and a runtime that throws on unhandled rejections
\* ends the process (one that only warns behaves as InitializeFail)
InitializeFailUnhandled ==
    /\ program = "service"
    /\ initState = <<"pending">>
    /\ \A i \in Requests : req[i].pc = "idle"
    /\ \E e \in InitErrors : initState' = <<"crashed", e>>
    /\ UNCHANGED <<program, ledger, brokerCreated, req, autoCalls, cli>>

\* the process of the service is alive
Running == initState[1] # "crashed"

InitSettled == initState # <<"pending">>

\* invocations are numbered in the order in which they are made
CanCall(i) ==
    /\ Running
    /\ req[i].pc = "idle"
    /\ \A j \in Requests : j < i => req[j].pc # "idle"

\* a controller calls brokerService.sendQuery(providerAddress, query, fallbackFee)
CallSendQuery(i) ==
    /\ program = "service"
    /\ CanCall(i)
    /\ \E p \in Providers, q \in Prompts, f \in Fees :
         req' = [req EXCEPT ![i] = [@ EXCEPT !.pc = "ensureInitialized", !.op = "sendQuery",
                                              !.providerAddress = p, !.query = q,
                                              !.fallbackFee = f]]
    /\ UNCHANGED <<program, ledger, initState, brokerCreated, autoCalls, cli>>

FirstStep(op) ==
    CASE op = "sendQuery" -> "getServiceMetadata"
      [] op = "depositFunds" -> "depositFund"
      [] op = "addFundsToLedger" -> "addLedger"
      [] op = "settleFee" -> "settleFee"
      [] op = "getBalance" -> "getLedger"
      [] op = "listServices" -> "listService"

\* mutant: the operation goes on whatever the outcome of the initialisation
AfterEnsureInitializedUnchecked(r) == [r EXCEPT !.pc = FirstStep(r.op)]

\* where an operation goes once the init promise has settled: on to its
\* first broker call, or out with the initialisation error
AfterEnsureInitialized(r) ==
    IF initState = <<"ok">>
    THEN [r EXCEPT !.pc = FirstStep(r.op)]
    ELSE Thrown(r, <<initState[2]>>)

\* await this.ensureInitialized(): resumes once the init promise has settled;
\* a rejected init promise rethrows the initialisation error unwrapped
EnsureInitialized(i) ==
    /\ program = "service"
    /\ req[i].pc = "ensureInitialized"
    /\ InitSettled
    /\ req' = [req EXCEPT ![i] = AfterEnsureInitialized(req[i])]
    /\ UNCHANGED <<program, ledger, initState, brokerCreated, autoCalls, cli>>

\* sendQuery: broker.inference.getServiceMetadata(providerAddress)
GetServiceMetadata(i) ==
    /\ program = "service"
    /\ req[i].pc = "getServiceMetadata"
    /\ \/ req' = [req EXCEPT ![i] =
                    [@ EXCEPT !.pc = "getRequestHeaders",
                              !.nMetadata = @ + 1,
                              !.endpoint = ServiceMetadata(req[i].providerAddress).endpoint,
                              !.model = ServiceMetadata(req[i].providerAddress).model]]
       \/ \E e \in BrokerErrors :
            req' = [req EXCEPT ![i] =
                      Thrown([@ EXCEPT !.nMetadata = @ + 1],
                             WrapError("Query failed", <<e>>))]
    /\ UNCHANGED <<program, ledger, initState, brokerCreated, autoCalls, cli>>

\* mutant: the headers are issued for the prompt in lower case
HeaderArgsForOtherText(r) ==
    [providerAddress |-> r.providerAddress,
     query |-> IF r.query = "Hello, AI!" THEN "hello, ai!" ELSE "bye"]

\* the arguments of getRequestHeaders: (providerAddress, query)
HeaderArgs(r) == [providerAddress |-> r.providerAddress, query |-> r.query]

\* requestHeaders: the entries of the broker's headers whose value is a string
StringHeaders(headers) ==
    [k \in {n \in DOMAIN headers : headers[n].type = "string"} |-> headers[k].text]

\* the request openai.chat.completions.create sends
ChatRequest(r) ==
    [messages |-> <<[role |-> "user", content |-> r.query]>>,
     model |-> r.model,
     headers |-> StringHeaders(r.headers[1])]

\* sendQuery: broker.inference.getRequestHeaders(providerAddress, query)
GetRequestHeaders(i) ==
    /\ program = "service"
    /\ req[i].pc = "getRequestHeaders"
    /\ \/ \E h \in RequestHeaders(HeaderArgs(req[i]).providerAddress, HeaderArgs(req[i]).query) :
            req' = [req EXCEPT ![i] =
                      [@ EXCEPT !.pc = "chatCompletion",
                                !.nHeaders = @ + 1,
                                !.headerArgs = <<HeaderArgs(req[i])>>,
                                !.headers = <<h>>]]
       \/ \E e \in BrokerErrors :
            req' = [req EXCEPT ![i] =
                      Thrown([@ EXCEPT !.nHeaders = @ + 1,
                                       !.headerArgs = <<HeaderArgs(req[i])>>],
                             WrapError("Query failed", <<e>>))]
    /\ UNCHANGED <<program, ledger, initState, brokerCreated, autoCalls, cli>>

\* mutant: a failed request is swallowed and the payment is processed anyway
CompletionFailedSwallowed(r, e) == [r EXCEPT !.pc = "processResponse"]

\* mutant: a failed request to the endpoint is sent again
CompletionFailedRetried(r, e) == [r EXCEPT !.pc = "chatCompletion"]

\* the request to the endpoint failed: the outer catch of sendQuery rethrows
CompletionFailed(r, e) == Thrown(r, WrapError("Query failed", <<e>>))

\* sendQuery: openai.chat.completions.create(...), then
\* content = completion.choices[0].message.content, chatId = completion.id
ChatCompletion(i) ==
    /\ program = "service"
    /\ req[i].pc = "chatCompletion"
    /\ \/ \E c \in Contents, id \in ChatIds :
            req' = [req EXCEPT ![i] =
                      [@ EXCEPT !.pc = "processResponse",
                                !.nCompletion = @ + 1,
                                !.request = <<ChatRequest(req[i])>>,
                                !.received = TRUE,
                                !.content = c,
                                !.chatId = id]]
       \/ \E e \in CompletionErrors :
            req' = [req EXCEPT ![i] =
                      CompletionFailed([@ EXCEPT !.nCompletion = @ + 1,
                                                 !.request = <<ChatRequest(req[i])>>], e)]
    /\ UNCHANGED <<program, ledger, initState, brokerCreated, autoCalls, cli>>

\* mutant: the content handed to processResponse (content || "") is returned
AutoResultNormalised(r, isValid) ==
    [content |-> ContentOrEmpty(r.content),
     metadata |-> [model |-> r.model, isValid |-> isValid, provider |-> r.providerAddress]]

\* the value sendQuery returns when processResponse did not throw
AutoResult(r, isValid) ==
    [content |-> r.content,
     metadata |-> [model |-> r.model, isValid |-> isValid, provider |-> r.providerAddress]]

\* mutant: the result of the fallback path carries no content
FallbackResultWithoutContent(r) ==
    [content |-> Null,
     metadata |-> [model |-> r.model, usedFallbackFee |-> TRUE,
                   fallbackFeeAmount |-> r.fallbackFee[1], provider |-> r.providerAddress]]

\* the value sendQuery returns when the fallback fee was settled
FallbackResult(r) ==
    [content |-> r.content,
     metadata |-> [model |-> r.model, usedFallbackFee |-> TRUE,
                   fallbackFeeAmount |-> r.fallbackFee[1], provider |-> r.providerAddress]]

\* mutant: a failed processResponse is tried again
AfterAutoFailureRetry(r, e) == [r EXCEPT !.pc = "processResponse", !.autoError = <<e>>]

\* mutant: the fallback is taken only for nonce errors
AfterAutoFailureNonceOnly(r, e) ==
    IF UseFallbackFee(r.fallbackFee) /\ e = "nonce too low"
    THEN [r EXCEPT !.pc = "fallbackSettleFee", !.autoError = <<e>>]
    ELSE Thrown([r EXCEPT !.autoError = <<e>>],
                WrapError("Query failed", WrapError("Payment processing failed", <<e>>)))

\* where the catch block of processResponse goes
AfterAutoFailure(r, e) ==
    IF UseFallbackFee(r.fallbackFee)
    THEN [r EXCEPT !.pc = "fallbackSettleFee", !.autoError = <<e>>]
    ELSE Thrown([r EXCEPT !.autoError = <<e>>],
                WrapError("Query failed", WrapError("Payment processing failed", <<e>>)))

\* mutant: an empty completion id is not handed to the broker
ProcessResponseArgsWithoutEmptyId(r) ==
    [providerAddress |-> r.providerAddress,
     content |-> ContentOrEmpty(r.content),
     chatId |-> IF r.chatId = "" THEN "<none>" ELSE r.chatId]

\* the arguments of processResponse: (providerAddress, content || "", chatId)
ProcessResponseArgs(r) ==
    [providerAddress |-> r.providerAddress,
     content |-> ContentOrEmpty(r.content),
     chatId |-> r.chatId]

\* mutant: a response reported as not valid is handled like a thrown error
AfterAutoResultInvalidFails(r) ==
    IF r.isValid[1]
    THEN Returned(r, AutoResult(r, r.isValid[1]))
    ELSE AfterAutoFailure(r, "stale fee")

\* processResponse did not throw: sendQuery returns, whatever isValid is
AfterAutoResult(r) == Returned(r, AutoResult(r, r.isValid[1]))

\* sendQuery: broker.inference.processResponse(providerAddress, content || "", chatId)
ProcessResponse(i) ==
    /\ program = "service"
    /\ req[i].pc = "processResponse"
    /\ autoCalls' = [autoCalls EXCEPT ![<<req[i].providerAddress, req[i].chatId>>] = @ + 1]
    /\ LET r == [req[i] EXCEPT !.nProcessResponse = @ + 1,
                               !.processed = <<ProcessResponseArgs(req[i])>>]
       IN \/ \E isValid \in BOOLEAN :
               req' = [req EXCEPT ![i] = AfterAutoResult([r EXCEPT !.isValid = <<isValid>>])]
          \/ \E e \in AutoErrors :
               req' = [req EXCEPT ![i] = AfterAutoFailure(r, e)]
    /\ UNCHANGED <<program, ledger, initState, brokerCreated, cli>>

\* mutant: the fallback settlement is called with the amount field
FallbackSettleArgsFromAmount(r) == [providerAddress |-> r.providerAddress, fee |-> r.amount]

\* the arguments of the fallback settlement: (providerAddress, fallbackFee)
FallbackSettleArgs(r) == [providerAddress |-> r.providerAddress, fee |-> r.fallbackFee[1]]

\* mutant: a failed fallback settlement is swallowed and reported as settled
FallbackSettleFailedSwallowed(r, e) ==
    Returned([r EXCEPT !.settleError = <<e>>], FallbackResult(r))

\* the fallback settlement threw: settleFee wraps the broker's error and the
\* outer catch of sendQuery wraps it again
FallbackSettleFailed(r, e) ==
    Thrown([r EXCEPT !.settleError = <<e>>],
           WrapError("Query failed", WrapError("Failed to settle fee", <<e>>)))

\* sendQuery: await this.settleFee(providerAddress, fallbackFee) inside the
\* catch block; settleFee wraps the broker's error, the outer catch wraps again
FallbackSettleFee(i) ==
    /\ program = "service"
    /\ req[i].pc = "fallbackSettleFee"
    /\ LET r == [req[i] EXCEPT !.nSettleFee = @ + 1,
                               !.settled = <<FallbackSettleArgs(req[i])>>]
       IN \/ req' = [req EXCEPT ![i] = Returned(r, FallbackResult(r))]
          \/ \E e \in SettleErrors :
               req' = [req EXCEPT ![i] = FallbackSettleFailed(r, e)]
    /\ UNCHANGED <<program, ledger, initState, brokerCreated, autoCalls, cli>>

\* a controller calls brokerService.depositFunds(amount)
CallDepositFunds(i) ==
    /\ program = "service"
    /\ CanCall(i)
    /\ \E a \in Amounts :
         req' = [req EXCEPT ![i] = [@ EXCEPT !.pc = "ensureInitialized",
                                              !.op = "depositFunds", !.amount = a]]
    /\ UNCHANGED <<program, ledger, initState, brokerCreated, autoCalls, cli>>

\* a controller calls brokerService.addFundsToLedger(amount)
CallAddFundsToLedger(i) ==
    /\ program = "service"
    /\ CanCall(i)
    /\ \E a \in Amounts :
         req' = [req EXCEPT ![i] = [@ EXCEPT !.pc = "ensureInitialized",
                                              !.op = "addFundsToLedger", !.amount = a]]
    /\ UNCHANGED <<program, ledger, initState, brokerCreated, autoCalls, cli>>

\* a controller calls brokerService.settleFee(providerAddress, fee)
CallSettleFee(i) ==
    /\ program = "service"
    /\ CanCall(i)
    /\ \E p \in Providers, f \in FeeValues :
         req' = [req EXCEPT ![i] = [@ EXCEPT !.pc = "ensureInitialized", !.op = "settleFee",
                                              !.providerAddress = p, !.amount = f]]
    /\ UNCHANGED <<program, ledger, initState, brokerCreated, autoCalls, cli>>

\* depositFunds: broker.ledger.depositFund(amount)
DepositFund(i) ==
    /\ program = "service"
    /\ req[i].pc = "depositFund"
    /\ LET r == [req[i] EXCEPT !.nDepositFund = @ + 1]
       IN \/ /\ req' = [req EXCEPT ![i] = Returned(r, "Deposit successful")]
             /\ ledger' = ledger + 1
          \/ /\ \E e \in BrokerErrors :
                  req' = [req EXCEPT ![i] =
                            Thrown(r, WrapError("Failed to deposit funds", <<e>>))]
             /\ UNCHANGED ledger
    /\ UNCHANGED <<program, initState, brokerCreated, autoCalls, cli>>

\* addFundsToLedger: broker.ledger.addLedger(amount)
AddLedger(i) ==
    /\ program = "service"
    /\ req[i].pc = "addLedger"
    /\ LET r == [req[i] EXCEPT !.nAddLedger = @ + 1]
       IN \/ /\ req' = [req EXCEPT ![i] = Returned(r, "Funds added to ledger successfully")]
             /\ ledger' = ledger + 1
          \/ /\ \E e \in BrokerErrors :
                  req' = [req EXCEPT ![i] =
                            Thrown(r, WrapError("Failed to add funds to ledger", <<e>>))]
             /\ UNCHANGED ledger
    /\ UNCHANGED <<program, initState, brokerCreated, autoCalls, cli>>

\* a controller calls brokerService.getBalance()
CallGetBalance(i) ==
    /\ program = "service"
    /\ CanCall(i)
    /\ req' = [req EXCEPT ![i] = [@ EXCEPT !.pc = "ensureInitialized", !.op = "getBalance"]]
    /\ UNCHANGED <<program, ledger, initState, brokerCreated, autoCalls, cli>>

\* a controller calls brokerService.listServices()
CallListServices(i) ==
    /\ program = "service"
    /\ CanCall(i)
    /\ req' = [req EXCEPT ![i] = [@ EXCEPT !.pc = "ensureInitialized", !.op = "listServices"]]
    /\ UNCHANGED <<program, ledger, initState, brokerCreated, autoCalls, cli>>

\* mutant: the balance is the one read when the broker was created
BalanceReadCached(l) == LedgerSnapshot(0)

\* what a balance read hands on: the answer of the getLedger call it just made
BalanceRead(l) == LedgerSnapshot(l)

\* getBalance: broker.ledger.getLedger()
GetLedger(i) ==
    /\ program = "service"
    /\ req[i].pc = "getLedger"
    /\ LET r == [req[i] EXCEPT !.nGetLedger = @ + 1]
       IN \/ req' = [req EXCEPT ![i] = Returned(r, BalanceRead(ledger))]
          \/ \E e \in BrokerErrors :
               req' = [req EXCEPT ![i] =
                         Thrown(r, WrapError("Failed to get balance", <<e>>))]
    /\ UNCHANGED <<program, ledger, initState, brokerCreated, autoCalls, cli>>

\* listServices: broker.inference.listService()
ListService(i) ==
    /\ program = "service"
    /\ req[i].pc = "listService"
    /\ LET r == [req[i] EXCEPT !.nListService = @ + 1]
       IN \/ req' = [req EXCEPT ![i] = Returned(r, ServiceList)]
          \/ \E e \in BrokerErrors :
               req' = [req EXCEPT ![i] =
                         Thrown(r, WrapError("Failed to list services", <<e>>))]
    /\ UNCHANGED <<program, ledger, initState, brokerCreated, autoCalls, cli>>

\* the arguments of a settlement asked for directly: (providerAddress, fee)
SettleFeeArgs(r) == [providerAddress |-> r.providerAddress, fee |-> r.amount]

\* settleFee: broker.inference.settleFee(providerAddress, fee)
SettleFee(i) ==
    /\ program = "service"
    /\ req[i].pc = "settleFee"
    /\ LET r == [req[i] EXCEPT !.nSettleFee = @ + 1,
                               !.settled = <<SettleFeeArgs(req[i])>>]
       IN \/ req' = [req EXCEPT ![i] = Returned(r, "Fee settled successfully")]
          \/ \E e \in SettleErrors :
               req' = [req EXCEPT ![i] =
                         Thrown([r EXCEPT !.settleError = <<e>>],
                                WrapError("Failed to settle fee", <<e>>))]
    /\ UNCHANGED <<program, ledger, initState, brokerCreated, autoCalls, cli>>

---------------------------------------------------------------------------
(* Command line program *)

\* the decimal texts a numeric flag may carry; a flag given without a value
\* carries the text "true" (parseArgs)
DecimalText == <<"0", "1", "2", "3">>
\* a JavaScript number: NaN or a value (in fee units)
NaN == [nan |-> TRUE, value |-> 0]
Number(n) == [nan |-> FALSE, value |-> n]
AmountTexts == {"true"} \cup {DecimalText[n + 1] : n \in 0..MaxAmount}

\* a numeral followed by other characters; parseFloat reads the numeral at
\* the start of a text and ignores what follows it
WithUnit(n) == DecimalText[n + 1] \o "eth"

\* the texts the fallbackFee flag may carry: those of any amount, a numeral
\* with trailing characters, and the empty text (-f "")
FallbackFeeTexts == AmountTexts \cup {""} \cup {WithUnit(n) : n \in 0..MaxAmount}

\* `if (flags[name])`: the flag was given and its text is not empty
Truthy(flag) == flag # Undefined /\ flag[1] # ""

\* parseFloat on the texts above
ParseFloat(text) ==
    IF \E n \in 0..(Len(DecimalText) - 1) : text \in {DecimalText[n + 1], WithUnit(n)}
    THEN Number(CHOOSE n \in 0..(Len(DecimalText) - 1) :
                    text \in {DecimalText[n + 1], WithUnit(n)})
    ELSE NaN

\* `!isNaN(amount) && amount > 0`
ValidAmount(amount) == ~amount.nan /\ amount.value > 0

Optional(S) == {Undefined} \cup {<<x>> : x \in S}

\* the flags parseArgs returns
FlagSets ==
    [help : Optional({"true"}), privateKey : Optional({"KEY"}),
     ls : Optional({"true"}), depositFee : Optional(AmountTexts),
     balance : Optional({"true"}), addLedger : Optional(AmountTexts),
     settleFee : Optional(AmountTexts), provider : Optional(Providers),
     query : Optional(CliPrompts), fallbackFee : Optional(FallbackFeeTexts)]

NoFlags ==
    [help |-> Undefined, privateKey |-> Undefined, ls |-> Undefined,
     depositFee |-> Undefined, balance |-> Undefined, addLedger |-> Undefined,
     settleFee |-> Undefined, provider |-> Undefined, query |-> Undefined,
     fallbackFee |-> Undefined]

NoCli ==
    [pc |-> "start", flags |-> NoFlags, envPrivateKey |-> Undefined,
     exitCode |-> -1, console |-> <<>>,
     providerAddress |-> "", query |-> "", fallbackFee |-> Undefined, amount |-> 0,
     endpoint |-> "", model |-> "", headerArgs |-> <<>>, headers |-> <<>>,
     request |-> <<>>,
     content |-> Null, chatId |-> "", received |-> FALSE,
     processed |-> <<>>, isValid |-> <<>>, autoError |-> <<>>,
     settled |-> <<>>, settleError |-> <<>>,
     nMetadata |-> 0, nHeaders |-> 0, nCompletion |-> 0,
     nProcessResponse |-> 0, nSettleFee |-> 0, nDepositFund |-> 0, nAddLedger |-> 0,
     nGetLedger |-> 0, nListService |-> 0]

\* the balance as console.log prints it
LedgerInfo(l) == DecimalText[BalanceRead(l).version + 1]

\* console.log / console.error
Log(c, line) == [c EXCEPT !.console = Append(@, line)]

\* main returns (or the awaited operation returns and main returns after it)
Exit(c, code) == [c EXCEPT !.pc = "exit", !.exitCode = code]

ProviderRequired == <<"Provider address is required with -p/--provider [address]">>

\* main(): the depositFee flag
DispatchDeposit(c) ==
    LET amount == ParseFloat(c.flags.depositFee[1]) IN
    IF ValidAmount(amount)
    THEN [c EXCEPT !.pc = "depositFund", !.amount = amount.value]
    ELSE Exit(Log(c, <<"Invalid deposit amount">>), 0)

\* main(): the addLedger flag
DispatchAddLedger(c) ==
    LET amount == ParseFloat(c.flags.addLedger[1]) IN
    IF ValidAmount(amount)
    THEN [c EXCEPT !.pc = "addLedger", !.amount = amount.value]
    ELSE Exit(Log(c, <<"Invalid ledger amount">>), 0)

\* main(): the settleFee flag
DispatchSettleFee(c) ==
    IF c.flags.provider = Undefined
    THEN Exit(Log(c, ProviderRequired), 0)
    ELSE LET fee == ParseFloat(c.flags.settleFee[1]) IN
         IF ValidAmount(fee)
         THEN [c EXCEPT !.pc = "settleFee", !.providerAddress = c.flags.provider[1],
                        !.amount = fee.value]
         ELSE Exit(Log(c, <<"Invalid fee amount">>), 0)

\* mutant: the provider flag is not required
DispatchQueryNoProviderCheck(c) ==
    [c EXCEPT !.pc = "getServiceMetadata",
              !.providerAddress = IF c.flags.provider = Undefined THEN ""
                                  ELSE c.flags.provider[1],
              !.query = c.flags.query[1]]

\* main(): the query flag
DispatchQuery(c) ==
    IF c.flags.provider = Undefined
    THEN Exit(Log(c, ProviderRequired), 0)
    ELSE IF Truthy(c.flags.fallbackFee)
            /\ ~ValidAmount(ParseFloat(c.flags.fallbackFee[1]))
    THEN Exit(Log(c, <<"Invalid fallback fee amount">>), 0)
    ELSE [c EXCEPT !.pc = "getServiceMetadata",
                   !.providerAddress = c.flags.provider[1],
                   !.query = c.flags.query[1],
                   !.fallbackFee = IF ~Truthy(c.flags.fallbackFee) THEN Undefined
                                   ELSE <<ParseFloat(c.flags.fallbackFee[1]).value>>]

\* mutant: the balance flag is looked at before the depositFee flag
DispatchBalanceFirst(c) ==
    IF c.flags.ls # Undefined THEN [c EXCEPT !.pc = "listService"]
    ELSE IF c.flags.balance # Undefined THEN [c EXCEPT !.pc = "checkBalance"]
    ELSE IF c.flags.depositFee # Undefined THEN DispatchDeposit(c)
    ELSE IF c.flags.addLedger # Undefined THEN DispatchAddLedger(c)
    ELSE IF c.flags.settleFee # Undefined THEN DispatchSettleFee(c)
    ELSE IF c.flags.query # Undefined THEN DispatchQuery(c)
    ELSE Exit(Log(Log(c, <<"No operation specified.">>), <<"help">>), 0)

\* main(), after initializeWalletAndBroker: the first operation flag present,
\* in the order of the if statements, decides what runs
Dispatch(c) ==
    IF c.flags.ls # Undefined THEN [c EXCEPT !.pc = "listService"]
    ELSE IF c.flags.depositFee # Undefined THEN DispatchDeposit(c)
    ELSE IF c.flags.balance # Undefined THEN [c EXCEPT !.pc = "checkBalance"]
    ELSE IF c.flags.addLedger # Undefined THEN DispatchAddLedger(c)
    ELSE IF c.flags.settleFee # Undefined THEN DispatchSettleFee(c)
    ELSE IF c.flags.query # Undefined THEN DispatchQuery(c)
    ELSE Exit(Log(Log(c, <<"No operation specified.">>), <<"help">>), 0)

\* main(): parseArgs, the help flag, the private key
CliMain ==
    /\ program = "cli"
    /\ cli.pc = "start"
    /\ \E flags \in FlagSets, env \in Optional({"ENVKEY"}) :
         LET c == [cli EXCEPT !.flags = flags, !.envPrivateKey = env] IN
         cli' = IF flags.help # Undefined THEN Exit(Log(c, <<"help">>), 0)
                ELSE IF flags.privateKey = Undefined /\ env = Undefined
                THEN Exit(Log(c, <<"Private key is required.">>), 1)
                ELSE [c EXCEPT !.pc = "initialize"]
    /\ UNCHANGED <<program, ledger, initState, brokerCreated, req, autoCalls>>

\* initializeWalletAndBroker, then the dispatch on the flags
CliInitialize ==
    /\ program = "cli"
    /\ cli.pc = "initialize"
    /\ \/ /\ cli' = Dispatch(cli)
          /\ initState' = <<"ok">>
          /\ brokerCreated' = brokerCreated + 1
       \/ /\ cli' = Exit(Log(Log(cli, <<"Error initializing wallet and broker:",
                                        "broker creation failed">>),
                                 <<"Error:", "broker creation failed">>), 1)
          /\ initState' = <<"failed", "broker creation failed">>
          /\ UNCHANGED brokerCreated
    /\ UNCHANGED <<program, ledger, req, autoCalls>>

\* checkBalance: broker.ledger.getLedger()
CheckBalanceOf(c) ==
    {Exit(Log([c EXCEPT !.nGetLedger = @ + 1], <<"Current balance:", LedgerInfo(ledger)>>), 0)}
    \cup {Exit(Log([c EXCEPT !.nGetLedger = @ + 1], <<"Error checking balance:", e>>), 0) :
            e \in BrokerErrors}

CliCheckBalance ==
    /\ program = "cli"
    /\ cli.pc = "checkBalance"
    /\ cli' \in CheckBalanceOf(cli)
    /\ UNCHANGED <<program, ledger, initState, brokerCreated, req, autoCalls>>

\* listServices: broker.inference.listService()
CliListServices ==
    /\ program = "cli"
    /\ cli.pc = "listService"
    /\ LET c == [cli EXCEPT !.nListService = @ + 1]
       IN \/ cli' = Exit(Log(c, <<"Found services">>), 0)
          \/ \E e \in BrokerErrors : cli' = Exit(Log(c, <<"Error listing services:", e>>), 0)
    /\ UNCHANGED <<program, ledger, initState, brokerCreated, req, autoCalls>>

\* depositFunds: broker.ledger.depositFund(amount), then checkBalance
CliDepositFunds ==
    /\ program = "cli"
    /\ cli.pc = "depositFund"
    /\ LET c == [cli EXCEPT !.nDepositFund = @ + 1]
       IN \/ /\ cli' = [Log(c, <<"Deposit successful.">>) EXCEPT !.pc = "checkBalance"]
             /\ ledger' = ledger + 1
          \/ /\ \E e \in BrokerErrors :
                  cli' = Exit(Log(c, <<"Error depositing funds:", e>>), 0)
             /\ UNCHANGED ledger
    /\ UNCHANGED <<program, initState, brokerCreated, req, autoCalls>>

\* addFundsToLedger: broker.ledger.addLedger(amount), then checkBalance
CliAddFundsToLedger ==
    /\ program = "cli"
    /\ cli.pc = "addLedger"
    /\ LET c == [cli EXCEPT !.nAddLedger = @ + 1]
       IN \/ /\ cli' = [Log(c, <<"Funds added successfully.">>) EXCEPT !.pc = "checkBalance"]
             /\ ledger' = ledger + 1
          \/ /\ \E e \in BrokerErrors :
                  cli' = Exit(Log(c, <<"Error adding funds to ledger:", e>>), 0)
             /\ UNCHANGED ledger
    /\ UNCHANGED <<program, initState, brokerCreated, req, autoCalls>>

\* settleFeeManually: broker.inference.settleFee(providerAddress, fee); an error
\* is logged, never rethrown
SettleFeeManually(c) ==
    LET called == [c EXCEPT !.nSettleFee = @ + 1, !.settled = <<SettleFeeArgs(c)>>] IN
    {Exit(Log(called, <<"Fee settled successfully">>), 0)}
    \cup {Exit(Log([called EXCEPT !.settleError = <<e>>],
                   <<"Error settling fee:", e>>), 0) : e \in SettleErrors}

CliSettleFee ==
    /\ program = "cli"
    /\ cli.pc \in {"settleFee", "fallbackSettleFee"}
    /\ cli' \in SettleFeeManually(cli)
    /\ UNCHANGED <<program, ledger, initState, brokerCreated, req, autoCalls>>

\* the catch block of the command line sendQuery: the error is logged and
\* the function returns
CliQueryFailed(c, e) == Exit(Log(c, <<"Error sending query:", e>>), 0)

\* sendQuery: broker.inference.getServiceMetadata(providerAddress)
CliGetServiceMetadata ==
    /\ program = "cli"
    /\ cli.pc = "getServiceMetadata"
    /\ LET c == [cli EXCEPT !.nMetadata = @ + 1]
       IN \/ cli' = [c EXCEPT !.pc = "getRequestHeaders",
                              !.endpoint = ServiceMetadata(c.providerAddress).endpoint,
                              !.model = ServiceMetadata(c.providerAddress).model]
          \/ \E e \in BrokerErrors : cli' = CliQueryFailed(c, e)
    /\ UNCHANGED <<program, ledger, initState, brokerCreated, req, autoCalls>>

\* sendQuery: broker.inference.getRequestHeaders(providerAddress, query)
CliGetRequestHeaders ==
    /\ program = "cli"
    /\ cli.pc = "getRequestHeaders"
    /\ LET c == [cli EXCEPT !.nHeaders = @ + 1, !.headerArgs = <<HeaderArgs(cli)>>]
       IN \/ \E h \in RequestHeaders(HeaderArgs(cli).providerAddress, HeaderArgs(cli).query) :
               cli' = [c EXCEPT !.pc = "chatCompletion", !.headers = <<h>>]
          \/ \E e \in BrokerErrors : cli' = CliQueryFailed(c, e)
    /\ UNCHANGED <<program, ledger, initState, brokerCreated, req, autoCalls>>

\* sendQuery: openai.chat.completions.create(...); the content is printed
\* before the payment is processed
CliChatCompletion ==
    /\ program = "cli"
    /\ cli.pc = "chatCompletion"
    /\ LET c == [cli EXCEPT !.nCompletion = @ + 1, !.request = <<ChatRequest(cli)>>]
       IN \/ \E content \in Contents, id \in ChatIds :
               cli' = Log([c EXCEPT !.pc = "processResponse", !.received = TRUE,
                                    !.content = content, !.chatId = id],
                          <<"Response from AI:", content>>)
          \/ \E e \in CompletionErrors : cli' = CliQueryFailed(c, e)
    /\ UNCHANGED <<program, ledger, initState, brokerCreated, req, autoCalls>>

\* the catch block of processResponse in the command line sendQuery
CliAfterAutoFailure(c, e) ==
    LET logged == Log([c EXCEPT !.autoError = <<e>>], <<"Error processing response:", e>>) IN
    IF UseFallbackFee(c.fallbackFee)
    THEN [Log(logged, <<"Using fallback fee of", DecimalText[c.fallbackFee[1] + 1]>>)
            EXCEPT !.pc = "fallbackSettleFee", !.amount = FallbackSettleArgs(c).fee]
    ELSE Exit(Log(logged, <<"No fallback fee specified. Payment may not have been processed.">>), 0)

\* sendQuery: broker.inference.processResponse(providerAddress, content || "", chatId)
CliProcessResponse ==
    /\ program = "cli"
    /\ cli.pc = "processResponse"
    /\ autoCalls' = [autoCalls EXCEPT ![<<cli.providerAddress, cli.chatId>>] = @ + 1]
    /\ LET c == [cli EXCEPT !.nProcessResponse = @ + 1,
                            !.processed = <<ProcessResponseArgs(cli)>>]
       IN \/ \E isValid \in BOOLEAN :
               cli' = Exit(Log([c EXCEPT !.isValid = <<isValid>>],
                               <<"Response validity:",
                                 IF isValid THEN "Valid" ELSE "Invalid">>), 0)
          \/ \E e \in AutoErrors : cli' = CliAfterAutoFailure(c, e)
    /\ UNCHANGED <<program, ledger, initState, brokerCreated, req>>

Init ==
    /\ program \in {"service", "cli"}
    /\ initState = <<"pending">>
    /\ brokerCreated = 0
    /\ ledger = 0
    /\ req = [i \in Requests |-> NoRequest]
    /\ autoCalls = [pair \in Providers \X ChatIds |-> 0]
    /\ cli = NoCli

Next ==
    \/ InitializeOk
    \/ InitializeFail
    \/ InitializeFailUnhandled
    \/ \E i \in Requests : CallSendQuery(i)
    \/ \E i \in Requests : CallDepositFunds(i)
    \/ \E i \in Requests : CallAddFundsToLedger(i)
    \/ \E i \in Requests : CallSettleFee(i)
    \/ \E i \in Requests : CallGetBalance(i)
    \/ \E i \in Requests : CallListServices(i)
    \/ \E i \in Requests : GetLedger(i)
    \/ \E i \in Requests : ListService(i)
    \/ \E i \in Requests : EnsureInitialized(i)
    \/ \E i \in Requests : DepositFund(i)
    \/ \E i \in Requests : AddLedger(i)
    \/ \E i \in Requests : SettleFee(i)
    \/ \E i \in Requests : GetServiceMetadata(i)
    \/ \E i \in Requests : GetRequestHeaders(i)
    \/ \E i \in Requests : ChatCompletion(i)
    \/ \E i \in Requests : ProcessResponse(i)
    \/ \E i \in Requests : FallbackSettleFee(i)
    \/ CliMain
    \/ CliInitialize
    \/ CliListServices
    \/ CliDepositFunds
    \/ CliCheckBalance
    \/ CliAddFundsToLedger
    \/ CliSettleFee
    \/ CliGetServiceMetadata
    \/ CliGetRequestHeaders
    \/ CliChatCompletion
    \/ CliProcessResponse

Spec == Init /\ [][Next]_vars

\* the steps of invocation i that wait for an external call (or for the init
\* promise) to return or fail
Step(i) ==
    \/ EnsureInitialized(i)
    \/ GetServiceMetadata(i) \/ GetRequestHeaders(i) \/ ChatCompletion(i)
    \/ ProcessResponse(i) \/ FallbackSettleFee(i)
    \/ DepositFund(i) \/ AddLedger(i) \/ SettleFee(i)
    \/ GetLedger(i) \/ ListService(i)

\* the steps of the command line program after its arguments are read
CliStep ==
    \/ CliInitialize
    \/ CliListServices \/ CliDepositFunds \/ CliCheckBalance
    \/ CliAddFundsToLedger \/ CliSettleFee
    \/ CliGetServiceMetadata \/ CliGetRequestHeaders
    \/ CliChatCompletion \/ CliProcessResponse

\* every external call eventually returns or fails: the promise an
\* invocation awaits settles and the invocation resumes
FairSpec ==
    /\ Spec
    /\ WF_vars(InitializeOk \/ InitializeFail)
    /\ \A i \in Requests : WF_vars(Step(i))
    /\ WF_vars(CliStep)

---------------------------------------------------------------------------
(* What a caller observes *)

Range(s) == {s[k] : k \in DOMAIN s}

\* the BrokerService invocations that are queries
Queries == {i \in Requests : req[i].op = "sendQuery"}

\* the command line invocation ran sendQuery
CliQuery == cli.nMetadata > 0

\* sendQuery returned a value (rather than throwing) that carries the content
\* received from the endpoint
ContentReturned(r) == r.ret # <<>> /\ r.ret[1].content = r.content

\* the command line program printed the content received from the endpoint
ContentPrinted(c) == <<"Response from AI:", c.content>> \in Range(c.console)

\* what the caller of sendQuery can read from what it got: the content of a
\* returned result, or the parts of the message of a thrown error
Retrievable(r) == IF r.ret # <<>> THEN {r.ret[1].content} ELSE Range(r.err)

\* processResponse was called and returned / threw
AutoSucceeded(r) == r.processed # <<>> /\ r.autoError = <<>>
AutoFailed(r) == r.processed # <<>> /\ r.autoError # <<>>

\* a fallback fee strictly greater than zero was supplied
FeePositive(r) == r.fallbackFee # Undefined /\ r.fallbackFee[1] > 0

\* the payment outcome of a finished BrokerService query
PaymentOutcome(r) ==
    IF r.ret # <<>> /\ "isValid" \in DOMAIN r.ret[1].metadata THEN "Verified"
    ELSE IF r.ret # <<>> /\ "usedFallbackFee" \in DOMAIN r.ret[1].metadata
         THEN "FallbackSettled"
    ELSE IF r.err # <<>> /\ r.processed # <<>> THEN "Unsettled"
    ELSE "None"

\* the payment outcome the command line program reports
CliPaymentOutcome(c) ==
    IF \E v \in {"Valid", "Invalid"} : <<"Response validity:", v>> \in Range(c.console)
    THEN "Verified"
    ELSE IF <<"Fee settled successfully">> \in Range(c.console) THEN "FallbackSettled"
    ELSE IF \E e \in AutoErrors : <<"Error processing response:", e>> \in Range(c.console)
         THEN "Unsettled"
    ELSE "None"

---------------------------------------------------------------------------
(* Claims *)

\* C1: for every query that received an answer from the endpoint, whatever
\* the payment outcome, the content is returned to the caller: a payment
\* failure never discards the answer.  (BrokerService.sendQuery throws when
\* the payment fails, so this is violated.)
C1_AnswerNeverDiscarded ==
    \A i \in Queries :
        (req[i].pc = "done" /\ req[i].received) => ContentReturned(req[i])

\* C2: whenever processResponse completes without throwing, the query reports
\* the payment as Verified and the content delivered is exactly the content
\* of the first completion (null stays null, it is not replaced by "").
C2_VerifiedWithExactContent ==
    /\ \A i \in Queries :
          AutoSucceeded(req[i]) =>
             /\ req[i].pc = "done"
             /\ PaymentOutcome(req[i]) = "Verified"
             /\ ContentReturned(req[i])
    /\ AutoSucceeded(cli) =>
          /\ cli.pc = "exit"
          /\ CliPaymentOutcome(cli) = "Verified"
          /\ ContentPrinted(cli)

C2_Witness ==
    /\ \E i \in Queries : AutoSucceeded(req[i]) /\ req[i].content = Null
                          /\ req[i].ret[1].content = Null

\* C3: whenever processResponse throws, a fallback fee > 0 was supplied and
\* the manual settleFee call succeeds, the query reports FallbackSettled and
\* the content is the one received.
C3_FallbackSettledKeepsContent ==
    /\ \A i \in Queries :
          (AutoFailed(req[i]) /\ FeePositive(req[i]) /\ req[i].pc = "done"
           /\ req[i].settleError = <<>>) =>
             /\ req[i].nSettleFee = 1
             /\ PaymentOutcome(req[i]) = "FallbackSettled"
             /\ ContentReturned(req[i])
    /\ (AutoFailed(cli) /\ FeePositive(cli) /\ cli.pc = "exit" /\ cli.settleError = <<>>) =>
          /\ cli.nSettleFee = 1
          /\ CliPaymentOutcome(cli) = "FallbackSettled"
          /\ ContentPrinted(cli)

C3_Witness ==
    \E i \in Queries :
        /\ AutoFailed(req[i]) /\ FeePositive(req[i]) /\ req[i].pc = "done"
        /\ req[i].settleError = <<>> /\ req[i].content = "Hi there"
        /\ PaymentOutcome(req[i]) = "FallbackSettled"

\* C4: whenever processResponse throws and the fallback fee is absent or <= 0,
\* the query is over at once, unsettled, and settleFee is never called for it.
C4_NoFeeNoFallbackCall ==
    /\ \A i \in Queries :
          (AutoFailed(req[i]) /\ ~FeePositive(req[i])) =>
             /\ req[i].pc = "done"
             /\ req[i].nSettleFee = 0
             /\ PaymentOutcome(req[i]) = "Unsettled"
    /\ (AutoFailed(cli) /\ ~FeePositive(cli)) =>
          /\ cli.pc = "exit"
          /\ cli.nSettleFee = 0
          /\ CliPaymentOutcome(cli) = "Unsettled"

C4_Witness ==
    /\ \E i \in Queries : AutoFailed(req[i]) /\ req[i].fallbackFee = <<0>>
    /\ \E i \in Queries : AutoFailed(req[i]) /\ req[i].fallbackFee = <<-1>>

\* C5: an automatic settlement failure with no fallback fee available reaches
\* the caller as a returned result marked Unsettled, not as a thrown error.
\* (BrokerService.sendQuery throws "Payment processing failed".)
C5_UnsettledIsReturnedNotThrown ==
    \A i \in Queries :
        (AutoFailed(req[i]) /\ ~FeePositive(req[i]) /\ req[i].pc = "done") =>
            req[i].err = <<>> /\ req[i].ret # <<>>

\* C6: when processResponse throws and the manual settleFee (fee > 0) throws
\* too, the caller gets an Unsettled outcome from which both errors can be
\* retrieved, and the content.  (BrokerService.sendQuery throws an error that
\* names only the settleFee error.)
C6_BothErrorsAndContentRetrievable ==
    \A i \in Queries :
        (AutoFailed(req[i]) /\ req[i].settleError # <<>> /\ req[i].pc = "done") =>
            /\ PaymentOutcome(req[i]) = "Unsettled"
            /\ req[i].autoError[1] \in Retrievable(req[i])
            /\ req[i].settleError[1] \in Retrievable(req[i])
            /\ req[i].content \in Retrievable(req[i])

DispatchersOf(pair) ==
    {i \in Queries : req[i].processed # <<>>
                     /\ <<req[i].providerAddress, req[i].chatId>> = pair}

CliDispatched(pair) ==
    IF cli.processed # <<>> /\ <<cli.providerAddress, cli.chatId>> = pair THEN 1 ELSE 0

C8_SettlementOnlyAfterAnswer ==
    /\ \A i \in Queries :
          /\ (req[i].nProcessResponse > 0 \/ req[i].nSettleFee > 0) =>
                (req[i].received /\ req[i].nCompletion = 1)
          /\ (req[i].pc = "done" /\ ~req[i].received) =>
                /\ req[i].err # <<>> /\ req[i].ret = <<>>
                /\ req[i].nProcessResponse = 0 /\ req[i].nSettleFee = 0
    /\ CliQuery =>
          /\ (cli.nProcessResponse > 0 \/ cli.nSettleFee > 0) =>
                (cli.received /\ cli.nCompletion = 1)
          /\ (cli.pc = "exit" /\ ~cli.received) =>
                /\ \E e \in BrokerErrors \cup CompletionErrors :
                      <<"Error sending query:", e>> \in Range(cli.console)
                /\ cli.nProcessResponse = 0 /\ cli.nSettleFee = 0

C8_Witness ==
    \E i \in Queries :
        /\ req[i].pc = "done" /\ req[i].nCompletion = 1 /\ ~req[i].received
        /\ req[i].err = <<"Query failed", "503 status code">>
        /\ FeePositive(req[i])

\* C9: deposit and add-to-ledger called with an amount <= 0 fail and make no
\* call to the broker.  (BrokerService.depositFunds and addFundsToLedger pass
\* any amount to the broker; only the command line main() checks it.)
C9_NonPositiveAmountNeverReachesBroker ==
    /\ \A i \in Requests :
          (req[i].op \in {"depositFunds", "addFundsToLedger"} /\ req[i].amount <= 0) =>
             (req[i].nDepositFund = 0 /\ req[i].nAddLedger = 0)
    /\ (cli.nDepositFund > 0 \/ cli.nAddLedger > 0) => cli.amount > 0

C11_EmptyIdSkipsAutoSettlement ==
    /\ \A i \in Queries :
          (req[i].received /\ req[i].chatId = "") => req[i].nProcessResponse = 0
    /\ (cli.received /\ cli.chatId = "") => cli.nProcessResponse = 0

\* C11 (amended): the correlation id is not inspected.  Every query that
\* received a completion calls processResponse with the id the completion
\* carries, the empty id included, and the fallback-or-unsettled decision is
\* reached only when that call throws.
C11_EmptyIdIsProcessedLikeAnyOther ==
    /\ \A i \in Queries :
          /\ (req[i].received /\ req[i].pc # "processResponse") =>
                /\ req[i].nProcessResponse = 1
                /\ req[i].processed[1].chatId = req[i].chatId
          /\ (req[i].pc = "fallbackSettleFee" \/ PaymentOutcome(req[i]) = "Unsettled") =>
                AutoFailed(req[i])
    /\ (cli.received /\ cli.pc # "processResponse") =>
          /\ cli.nProcessResponse = 1
          /\ cli.processed[1].chatId = cli.chatId
    /\ (CliQuery /\ (cli.pc = "fallbackSettleFee" \/ CliPaymentOutcome(cli) = "Unsettled")) =>
          AutoFailed(cli)

C11_Witness ==
    \E i \in Queries :
        /\ req[i].chatId = "" /\ req[i].pc = "done"
        /\ req[i].processed = <<[providerAddress |-> req[i].providerAddress,
                                 content |-> "Hi there", chatId |-> ""]>>
        /\ PaymentOutcome(req[i]) = "Verified"


\* a query's headers and request agree on the prompt: the headers were
\* issued once, for the text the request carries as its user message
HeadersMatchRequest(r) ==
    /\ r.nHeaders <= 1
    /\ r.nCompletion <= 1
    /\ r.headerArgs # <<>> => (r.nHeaders = 1 /\ r.headerArgs[1].query = r.query)
    /\ r.request # <<>> =>
          /\ r.headerArgs # <<>>
          /\ r.headers # <<>>
          /\ r.headers[1] \in RequestHeaders(r.headerArgs[1].providerAddress,
                                              r.request[1].messages[1].content)
          /\ r.request[1].messages[1].content = r.headerArgs[1].query

\* C12: within one query getRequestHeaders is called at most once, and it is
\* called for exactly the prompt text that is then sent as the user message
\* of the inference request.
C12_HeadersIssuedOnceForThePromptSent ==
    /\ \A i \in Queries : HeadersMatchRequest(req[i])
    /\ HeadersMatchRequest(cli)

\* C12 witness: a command line query for the prompt "Bye" had its headers
\* issued for "Bye" and sent "Bye" as the user message.
C12_Witness ==
    /\ cli.query = "Bye"
    /\ cli.nHeaders = 1
    /\ cli.headerArgs = <<[providerAddress |-> cli.providerAddress, query |-> "Bye"]>>
    /\ cli.request # <<>>
    /\ cli.request[1].messages = <<[role |-> "user", content |-> "Bye"]>>


\* the conditions under which a finished query may carry each payment outcome
OutcomeJustified(r, outcome) ==
    /\ outcome \in {"Verified", "FallbackSettled", "Unsettled"}
    /\ outcome = "Verified" => AutoSucceeded(r) /\ r.nSettleFee = 0
    /\ outcome = "FallbackSettled" =>
          /\ AutoFailed(r)
          /\ FeePositive(r)
          /\ r.nSettleFee = 1 /\ r.settleError = <<>>
    /\ outcome = "Unsettled" =>
          /\ AutoFailed(r)
          /\ \/ ~FeePositive(r) /\ r.nSettleFee = 0
             \/ r.nSettleFee = 1 /\ r.settleError # <<>>

\* C13: every finished query that received an answer has exactly one payment
\* outcome among Verified, FallbackSettled and Unsettled; FallbackSettled only
\* with a fallback fee supplied and a manual settlement call that succeeded;
\* Unsettled only when automatic settlement failed and either no fallback fee
\* (absent or not positive) was supplied or the manual settlement failed too.
C13_OutcomeIsOneOfThreeAndJustified ==
    /\ \A i \in Queries :
          (req[i].pc = "done" /\ req[i].received) =>
             OutcomeJustified(req[i], PaymentOutcome(req[i]))
    /\ (CliQuery /\ cli.pc = "exit" /\ cli.received) =>
          OutcomeJustified(cli, CliPaymentOutcome(cli))

\* C13 witness: one query ended FallbackSettled and another ended Unsettled
\* after its manual settlement failed as well.
C13_Witness ==
    \E i, j \in Queries :
        /\ req[i].pc = "done" /\ PaymentOutcome(req[i]) = "FallbackSettled"
        /\ req[j].pc = "done" /\ PaymentOutcome(req[j]) = "Unsettled"
        /\ req[j].settleError # <<>>


\* C14 (as stated): no failure anywhere in the workflow is fatal to the
\* process: the command line program never ends with a failure exit code and
\* the service process is never ended by a failed initialisation.
C14_NoFailureIsFatal ==
    /\ cli.pc = "exit" => cli.exitCode = 0
    /\ Running


\* the invocations of getBalance
BalanceReads == {i \in Requests : req[i].op = "getBalance"}

\* a step in which a getBalance invocation returns a value: it made a
\* getLedger call in this very step and returns the ledger as it is now
FreshServiceRead(i) ==
    (req[i].pc = "getLedger" /\ req'[i].ret # <<>>) =>
        /\ req'[i].nGetLedger = req[i].nGetLedger + 1
        /\ req'[i].ret[1] = LedgerSnapshot(ledger)

\* a step in which the command line program prints a balance
FreshCliRead ==
    (cli.pc = "checkBalance" /\ cli'.pc = "exit"
     /\ cli'.console[Len(cli'.console)][1] = "Current balance:") =>
        /\ cli'.nGetLedger = cli.nGetLedger + 1
        /\ cli'.console[Len(cli'.console)] = <<"Current balance:", DecimalText[ledger + 1]>>

\* C15: every balance read makes its own getLedger call and returns what
\* that call answered, the ledger as it is at the time of the read, whatever
\* deposits, ledger additions, queries and other reads came before.
C15_BalanceReadIsFresh ==
    /\ [](\A i \in BalanceReads : req[i].ret # <<>> => req[i].nGetLedger = 1)
    /\ [][(\A i \in Requests : FreshServiceRead(i)) /\ FreshCliRead]_vars

\* C15 witness: a balance read returned the ledger as changed by a funding
\* that completed before it.
C15_Witness ==
    \E i \in BalanceReads :
        /\ ledger = 1
        /\ req[i].pc = "done"
        /\ req[i].ret = <<LedgerSnapshot(1)>>


\* the manual settlement of a query: only after processResponse threw, at
\* most once, for the query's provider and the fallback fee supplied
ManualSettlementInOrder(r) ==
    /\ r.nSettleFee <= 1
    /\ AutoSucceeded(r) => r.nSettleFee = 0
    /\ r.processed = <<>> => r.nSettleFee = 0
    /\ r.nSettleFee = 1 =>
          /\ AutoFailed(r)
          /\ r.fallbackFee # Undefined
          /\ r.settled = <<[providerAddress |-> r.providerAddress,
                            fee |-> r.fallbackFee[1]]>>

\* C16: within one query the manual fee-settlement call is made only after
\* the automatic settlement call has failed, never when it succeeded, at most
\* once, and with exactly the query's provider address and the fallback fee
\* supplied.
C16_ManualSettlementAfterAutoFailureOnly ==
    /\ \A i \in Queries : ManualSettlementInOrder(req[i])
    /\ CliQuery => ManualSettlementInOrder(cli)

\* C16 witness: a query whose automatic settlement failed settled its
\* fallback fee with the broker.
C16_Witness ==
    \E i \in Queries :
        /\ req[i].autoError = <<"stale fee">>
        /\ req[i].fallbackFee = <<1>>
        /\ req[i].nSettleFee = 1
        /\ req[i].settled = <<[providerAddress |-> "0xAAA", fee |-> 1]>>


\* after a failed processResponse with a fallback fee > 0 the manual
\* settlement is the next step of the query or has been made
FallbackFollowsAnyAutoError(r) ==
    (AutoFailed(r) /\ FeePositive(r)) =>
        \/ r.pc = "fallbackSettleFee" /\ r.nSettleFee = 0
        \/ r.nSettleFee = 1

RequestAsIssued(r) ==
    r.request # <<>> =>
        /\ r.request[1].messages = <<[role |-> "user", content |-> r.query]>>
        /\ r.nMetadata = 1
        /\ r.request[1].model = ServiceMetadata(r.providerAddress).model
        /\ DOMAIN r.request[1].headers = DOMAIN r.headers[1]
        /\ \A k \in DOMAIN r.headers[1] :
              /\ k \in DOMAIN r.request[1].headers
              /\ r.request[1].headers[k] = r.headers[1][k].text

BrokerCalls(r) ==
    r.nMetadata + r.nHeaders + r.nProcessResponse + r.nSettleFee
    + r.nDepositFund + r.nAddLedger + r.nGetLedger + r.nListService

\* the invocation is at a broker call
AtBrokerCall(r) ==
    r.pc \in {"getServiceMetadata", "getRequestHeaders", "processResponse",
              "fallbackSettleFee", "depositFund", "addLedger", "settleFee",
              "getLedger", "listService"}

\* C19: under any interleaving of concurrently invoked operations of the
\* BrokerService instance the broker is created at most once, and no
\* operation calls a broker method (or is about to) unless the
\* initialisation has completed successfully.
C19_OneBrokerAndNoCallBeforeInit ==
    program = "service" =>
        /\ brokerCreated <= 1
        /\ \A i \in Requests :
              (BrokerCalls(req[i]) > 0 \/ AtBrokerCall(req[i]) \/ req[i].nCompletion > 0) =>
                 (initState = <<"ok">> /\ brokerCreated = 1)

\* C19 witness: two operations of different kinds were both invoked and both
\* called the broker that the one initialisation created.
C19_Witness ==
    /\ program = "service"
    /\ brokerCreated = 1
    /\ req[1].op = "getBalance" /\ req[1].nGetLedger = 1
    /\ req[2].op = "sendQuery" /\ req[2].nMetadata = 1


\* the initialisation of the BrokerService instance has failed
InitFailed == program = "service" /\ initState[1] \in {"failed", "crashed"}

\* after a failed initialisation no broker exists, no invocation has made or
\* is about to make a broker call, and every finished invocation has thrown
\* the initialisation error
FailedForGood ==
    InitFailed =>
        /\ brokerCreated = 0
        /\ \A i \in Requests :
              /\ BrokerCalls(req[i]) = 0 /\ req[i].nCompletion = 0
              /\ ~AtBrokerCall(req[i])
              /\ req[i].pc = "done" =>
                    (req[i].ret = <<>> /\ req[i].err = <<initState[2]>>)

\* C20: if the initialisation of BrokerService fails it is never retried:
\* the instance stays failed, and every public operation invoked on it fails
\* with the initialisation error and makes no broker call.
C20_FailedInitIsNeverRetried ==
    /\ []FailedForGood
    /\ [][InitFailed => (initState' = initState /\ brokerCreated' = 0)]_vars

\* C20 witness: the initialisation failed for the missing private key and a
\* deposit and a query invoked on the instance both failed with that error.
C20_Witness ==
    /\ initState = <<"failed", "PRIVATE_KEY is required in .env file">>
    /\ req[1].op = "depositFunds" /\ req[2].op = "sendQuery"
    /\ \A i \in Requests :
          /\ req[i].pc = "done"
          /\ req[i].err = <<"PRIVATE_KEY is required in .env file">>


\* C21: when processResponse returns without throwing but reports the
\* response as not valid, the query counts as automatically settled: no
\* manual settlement is attempted, even with a fallback fee > 0, and the
\* result is delivered with the content and the false validity flag.
C21_InvalidResponseIsNotAFailure ==
    /\ \A i \in Queries :
          req[i].isValid = <<FALSE>> =>
             /\ req[i].pc = "done"
             /\ req[i].autoError = <<>> /\ req[i].nSettleFee = 0
             /\ req[i].err = <<>>
             /\ ContentReturned(req[i])
             /\ req[i].ret[1].metadata.isValid = FALSE
    /\ cli.isValid = <<FALSE>> =>
          /\ cli.pc = "exit" /\ cli.exitCode = 0
          /\ cli.autoError = <<>> /\ cli.nSettleFee = 0
          /\ ContentPrinted(cli)
          /\ cli.console[Len(cli.console)] = <<"Response validity:", "Invalid">>

\* C21 witness: a query with a fallback fee > 0 ended with the validity flag
\* false and no manual settlement.
C21_Witness ==
    \E i \in Queries :
        /\ req[i].fallbackFee = <<1>>
        /\ req[i].isValid = <<FALSE>>
        /\ req[i].ret # <<>> /\ req[i].ret[1].metadata.isValid = FALSE
        /\ req[i].ret[1].content = "Hi there"
        /\ req[i].nSettleFee = 0


\* the calls one query has made: at most one of each kind
AtMostOneCallOfEachKind(r) ==
    /\ r.nMetadata <= 1 /\ r.nHeaders <= 1 /\ r.nCompletion <= 1
    /\ r.nProcessResponse <= 1 /\ r.nSettleFee <= 1

\* every query that was invoked is over: the service's sendQuery has returned
\* a result or thrown an error, the command line's sendQuery has returned.
\* (An invocation, once made, stays made, and one that is over stays over,
\* so "eventually always over" is "every invocation ends".)
EveryQueryOver ==
    /\ \A i \in Queries :
          req[i].pc = "done" /\ (req[i].ret # <<>> \/ req[i].err # <<>>)
    /\ cli.pc \notin {"getServiceMetadata", "getRequestHeaders", "chatCompletion",
                       "processResponse", "fallbackSettleFee"}

\* C22: every invocation of the query workflow ends, with a result or an
\* error, provided each external call eventually returns or fails, and it
\* makes at most one metadata call, one header call, one inference request,
\* one automatic and one manual settlement call: nothing is retried.
C22_QueryTerminatesWithoutRetry ==
    /\ [](\A i \in Queries : AtMostOneCallOfEachKind(req[i]))
    /\ [](CliQuery => AtMostOneCallOfEachKind(cli))
    /\ <>[]EveryQueryOver

\* C22 witness: a query ended after one call of each of the five kinds, its
\* manual settlement having failed.
C22_Witness ==
    \E i \in Queries :
        /\ req[i].pc = "done"
        /\ req[i].nMetadata = 1 /\ req[i].nHeaders = 1 /\ req[i].nCompletion = 1
        /\ req[i].nProcessResponse = 1 /\ req[i].nSettleFee = 1
        /\ req[i].err # <<>>


\* the operation the priority help > ls > depositFee > balance > addLedger >
\* settleFee > query selects among the flags present
Selected(flags) ==
    IF flags.help # Undefined THEN "help"
    ELSE IF flags.ls # Undefined THEN "ls"
    ELSE IF flags.depositFee # Undefined THEN "depositFee"
    ELSE IF flags.balance # Undefined THEN "balance"
    ELSE IF flags.addLedger # Undefined THEN "addLedger"
    ELSE IF flags.settleFee # Undefined THEN "settleFee"
    ELSE IF flags.query # Undefined THEN "query"
    ELSE "none"

\* the operations the command line run has carried out, read off the broker
\* and endpoint calls it made (a deposit or a ledger addition shows the
\* balance afterwards; a query may settle its fallback fee)
Ran(c) ==
    {op \in {"help", "ls", "depositFee", "balance", "addLedger", "settleFee", "query"} :
        \/ op = "help" /\ c.console = <<(<<"help">>)>>
        \/ op = "ls" /\ c.nListService > 0
        \/ op = "depositFee" /\ c.nDepositFund > 0
        \/ op = "addLedger" /\ c.nAddLedger > 0
        \/ op = "balance" /\ c.nGetLedger > 0 /\ c.nDepositFund = 0 /\ c.nAddLedger = 0
        \/ op = "settleFee" /\ c.nSettleFee > 0 /\ c.nMetadata = 0
        \/ op = "query" /\ (c.nMetadata > 0 \/ c.nHeaders > 0 \/ c.nCompletion > 0
                             \/ c.nProcessResponse > 0)}

IsNumber(text) == \E n \in 0..(Len(DecimalText) - 1) : text = DecimalText[n + 1]

\* the fallbackFee flag was given with a value that is not a number or is
\* not greater than zero
BadFallbackFee(flags) ==
    /\ flags.fallbackFee # Undefined
    /\ \/ ~IsNumber(flags.fallbackFee[1])
       \/ ParseFloat(flags.fallbackFee[1]).value <= 0

\* the command line run made none of the calls of the query workflow
NoWorkflowCall(c) ==
    /\ c.nMetadata = 0 /\ c.nHeaders = 0 /\ c.nCompletion = 0
    /\ c.nProcessResponse = 0 /\ c.nSettleFee = 0

\* C24 (as stated): in the command line program a query given with a
\* fallback-fee flag whose value is not a number or is <= 0 is rejected
\* before the workflow starts (no metadata, header, inference or settlement
\* call), and a settle-fee or query operation without a provider flag makes
\* no broker operation call.  (parseFloat reads "1eth" as 1, and an empty
\* value counts as no flag: both queries are sent.)
C24_BadFallbackFeeOrNoProviderMakesNoCall ==
    /\ (Selected(cli.flags) = "query" /\ BadFallbackFee(cli.flags)) =>
          NoWorkflowCall(cli)
    /\ (Selected(cli.flags) \in {"settleFee", "query"} /\ cli.flags.provider = Undefined) =>
          (BrokerCalls(cli) = 0 /\ cli.nCompletion = 0)

=============================================================================
